---- MODULE Spec2Model ----
(***************************************************************************)
(* NEPSE scraper API (Swbhaav/Nepse-Swagger).                              *)
(*                                                                         *)
(* The model follows src/api/index.js lines 1-645 (the "optimized"         *)
(* server: limit and maxPages arguments, TTL cache) and, for the           *)
(* single-page scrapers, src/unnamed/part_000 (the first server).          *)
(*                                                                         *)
(* A scrape call is an async function: one action of the model is the      *)
(* completion (resolve or reject) of the await the call is suspended at,   *)
(* followed by the synchronous code up to the next await.  Every awaited   *)
(* Page Driver (puppeteer) operation may resolve or reject; what the page  *)
(* shows (number of rows, presence and state of the next control, whether  *)
(* a navigation has completed) is chosen by the environment.               *)
(* browser.close() is taken to resolve.                                    *)
(***************************************************************************)
EXTENDS Integers, Sequences, FiniteSets, TLC

VARIABLES
    call,    \* per process: the state of its scrape call (locals, position, page driver)
    req,     \* per process: the state of its HTTP handler
    cache,   \* the process-wide Map of index.js:21
    now,     \* Date.now()
    hist     \* history of cache operations and responses (observation only)

vars == <<call, req, cache, now, hist>>

----------------------------------------------------------------------------
(* Bounds of the model *)

MaxLimit == 4        \* largest limit argument a scrape is called with
MaxPagesArg == 3     \* largest maxPages argument a scrape is called with
MaxRows == 2         \* most rows a page shows
MaxTicks == 3        \* how often the clock advances between direct cache calls
MaxApiTicks == 1     \* how often the clock advances between HTTP requests
MaxReqs == 2         \* how many HTTP requests are received
BigPage == 20        \* rows of a full page of the remote table
MaxRaceReqs == 3     \* how many HTTP requests are received while others are in flight
MaxRaceTicks == 1    \* how often the clock advances while requests are in flight
MaxCells == 11       \* most <td> cells a table row holds

\* const CACHE_TTL = 300000; and the ttl the live-trading handler passes.
CACHE_TTL == 300000
LIVE_TTL == 60000

----------------------------------------------------------------------------
(* Helpers *)

Min(a, b) == IF a < b THEN a ELSE b
Max(a, b) == IF a > b THEN a ELSE b

\* Array.prototype.slice(0, end): a negative end counts from the back.
Slice0(s, end) ==
    LET n == Len(s)
        e == IF end < 0 THEN Max(n + end, 0) ELSE Min(end, n)
    IN  SubSeq(s, 1, e)

RECURSIVE Flatten(_)
Flatten(bs) == IF bs = <<>> THEN <<>> ELSE Head(bs) \o Flatten(Tail(bs))

\* The rows page.evaluate returns when the DOM shows r rows of page pg:
\* one record per <tr>, in document order.
Rows(pg, r) == [i \in 1..r |-> <<pg, i>>]

Procs == {1}

Paginated == {"todays-price", "live-trading", "floor-sheet"}

----------------------------------------------------------------------------
(* The scrape calls: scrapeTodaysPrice, scrapeLiveTrading, scrapeTopGainers, *)
(* scrapeFloorSheet                                                          *)

\* The locals of a call that has just been entered and is suspended at
\* puppeteer.launch.  shown/loading are the page driver's side: the page whose
\* rows the DOM holds, and whether a clicked navigation is still under way.
\* browser tells whether the local `browser` holds a session and session which
\* one (0: none).  good records that the page driver has so far resolved every
\* await, shown rows, offered an enabled next control and accepted the click;
\* nOpen .. stop only observe the run.
NewCall(ver, src, limit, maxPages) ==
    [ver |-> ver, src |-> src, limit |-> limit, maxPages |-> maxPages,
     pc |-> "launch", browser |-> FALSE, session |-> 0,
     allData |-> <<>>, pageCount |-> 1,
     shown |-> 1, loading |-> FALSE, good |-> TRUE,
     pending |-> "none", outcome |-> "none", result |-> <<>>,
     nOpen |-> 0, nClose |-> 0, nExtract |-> 0, nLookup |-> 0, nClick |-> 0,
     batches |-> <<>>, failedAt |-> "none", stop |-> "none"]

NoCall == [NewCall("opt", "top-gainers", 0, 0) EXCEPT !.pc = "idle"]

\* Mutant of ApplyLimit: the final truncation is left out.
ApplyLimitOff(allData, limit) == allData

\* Mutant of ApplyLimit: the last limit rows are kept instead of the first.
ApplyLimitTail(allData, limit) ==
    IF Len(allData) > limit
    THEN SubSeq(allData, Len(allData) - Max(limit, 0) + 1, Len(allData))
    ELSE allData

\* if (allData.length > limit) allData = allData.slice(0, limit);
ApplyLimit(allData, limit) ==
    IF Len(allData) > limit THEN Slice0(allData, limit) ELSE allData

\* Mutant of LimitReached: the rows of the current page are counted instead of
\* the rows gathered (pageData.length for allData.length).
LimitReachedOnPage(c) == Len(c.batches[Len(c.batches)]) >= c.limit

\* Mutant of LimitReached: no check in the loop, the final slice is relied on.
LimitReachedNever(c) == FALSE

\* Mutant of LimitReached: off by one, another page is fetched at exactly limit rows.
LimitReachedStrict(c) == Len(c.allData) > c.limit

\* if (allData.length >= limit) break;
LimitReached(c) == Len(c.allData) >= c.limit

\* Mutant of PageCapReached: off by one, the next control is used on the last page.
PageCapReachedStrict(c) == c.pageCount > c.maxPages

\* if (pageCount >= maxPages) break;
PageCapReached(c) == c.pageCount >= c.maxPages

\* The while condition of each scraper.
LoopCond(c) ==
    IF c.src = "todays-price"
    THEN c.pageCount <= c.maxPages
    ELSE c.pageCount <= c.maxPages /\ Len(c.allData) < c.limit

\* return data; finally { if (browser) await browser.close(); }
Return(c, data, why) ==
    [c EXCEPT !.pc = "close", !.pending = "ok", !.result = data, !.stop = why]

\* Mutant of Throw: the error leaves the call without the finally block.
ThrowNoFinally(c, step) ==
    [c EXCEPT !.pc = "done", !.pending = "error", !.outcome = "error", !.failedAt = step]

\* A rejected await outside the inner try: catch (error) { throw error; }
\* finally { if (browser) await browser.close(); }
Throw(c, step) ==
    IF c.browser
    THEN [c EXCEPT !.pc = "close", !.pending = "error", !.failedAt = step]
    ELSE [c EXCEPT !.pc = "done", !.pending = "error", !.outcome = "error",
                   !.failedAt = step]

\* The code after the pagination loop: apply the limit and return.
AfterLoop(c, why) == Return(c, ApplyLimit(c.allData, c.limit), why)

\* Mutant of NavCatch: no inner try, the navigation error propagates.
NavCatchRethrow(c, step) ==
    [c EXCEPT !.pc = "close", !.pending = "error", !.failedAt = step]

\* The inner catch (navError) { break; } of scrapeTodaysPrice / scrapeLiveTrading.
NavCatch(c, step) == AfterLoop([c EXCEPT !.failedAt = step], "navigation-failed")

\* Evaluation of the while condition.
LoopHead(c) == IF LoopCond(c) THEN [c EXCEPT !.pc = "extract"] ELSE AfterLoop(c, "loop-exit")

\* browser = await puppeteer.launch(...): s is the session the page driver opens.
LaunchStep(c, ok, s) ==
    IF ok THEN [c EXCEPT !.browser = TRUE, !.session = s, !.nOpen = @ + 1, !.pc = "newPage"]
    ELSE Throw(c, "launch")

\* const page = await browser.newPage();
NewPageStep(c, ok) == IF ok THEN [c EXCEPT !.pc = "setUserAgent"] ELSE Throw(c, "newPage")

\* await page.setUserAgent(...)
SetUserAgentStep(c, ok) == IF ok THEN [c EXCEPT !.pc = "goto"] ELSE Throw(c, "setUserAgent")

\* await page.goto(url, ...); scrapeFloorSheet then sleeps 2 s.
GotoStep(c, ok) ==
    IF ok
    THEN [c EXCEPT !.pc = IF c.ver = "opt" /\ c.src = "floor-sheet" THEN "settle" ELSE "waitTable"]
    ELSE Throw(c, "goto")

\* await page.waitForTimeout(2000) of scrapeFloorSheet, before the table wait.
SettleStep(c, ok) == IF ok THEN [c EXCEPT !.pc = "waitTable"] ELSE Throw(c, "settle")

\* await page.waitForSelector('table', ...); let allData = []; let pageCount = 1;
\* then the loop is entered (the single-page scrapers go on to their one evaluate).
WaitTableStep(c, ok) ==
    IF ~ok THEN Throw(c, "waitTable")
    ELSE IF c.ver = "opt" /\ c.src \in Paginated
         THEN LoopHead([c EXCEPT !.allData = <<>>, !.pageCount = 1])
         ELSE [c EXCEPT !.pc = "extract"]

\* Mutant of ExtractData: the test for an empty batch is left out.
ExtractDataNoEmptyTest(c, pageData) ==
    LET c2 == [c EXCEPT !.nExtract = @ + 1, !.batches = Append(@, pageData),
                        !.allData = @ \o pageData]
    IN  IF LimitReached(c2) THEN AfterLoop(c2, "limit-reached")
        ELSE IF PageCapReached(c2) THEN AfterLoop(c2, "page-cap-reached")
        ELSE [c2 EXCEPT !.pc = IF c.src = "floor-sheet" THEN "hasNext" ELSE "findNext"]

\* The loop body from the row extraction, which returned pageData, to the next await.
ExtractData(c, pageData) ==
    LET c1 == [c EXCEPT !.nExtract = @ + 1, !.batches = Append(@, pageData)]
        c2 == [c1 EXCEPT !.allData = @ \o pageData]
    IN  IF Len(pageData) = 0 THEN AfterLoop(c1, "no-data")
        ELSE IF LimitReached(c2) THEN AfterLoop(c2, "limit-reached")
        ELSE IF PageCapReached(c2) THEN AfterLoop(c2, "page-cap-reached")
        ELSE [c2 EXCEPT !.pc = IF c.src = "floor-sheet" THEN "hasNext" ELSE "findNext"]

\* The same when the page shows r rows.
ExtractPage(c, r) == ExtractData(c, Rows(c.shown, r))

\* Mutant of ExtractGainers: the page's rows are kept and the next control is
\* looked for, as in a paginated scraper.
ExtractGainersPaginating(c, r) ==
    LET pageData == Rows(c.shown, r)
    IN  [c EXCEPT !.nExtract = @ + 1, !.batches = Append(@, pageData),
                  !.allData = @ \o pageData, !.pc = "findNext"]

\* scrapeTopGainers: the one evaluate returned pageData, which is returned whole.
ExtractGainersData(c, pageData) ==
    Return([c EXCEPT !.nExtract = @ + 1, !.batches = Append(@, pageData)],
           pageData, "single-page")

\* The same when the page shows r rows.
ExtractGainers(c, r) == ExtractGainersData(c, Rows(c.shown, r))

\* part_000: rows.slice(0, limit).map(...) inside the one evaluate, rows being
\* the records of all the rows the table holds.
ExtractOldData(c, rows) ==
    LET data == IF c.src = "top-gainers" THEN rows ELSE Slice0(rows, c.limit)
    IN  Return([c EXCEPT !.nExtract = @ + 1, !.batches = Append(@, rows)],
               data, "single-page")

\* The same when the page shows r rows.
ExtractOld(c, r) == ExtractOldData(c, Rows(c.shown, r))

ExtractStep(c, ok, r) ==
    IF ~ok THEN Throw(c, "extract")
    ELSE IF c.ver = "old" THEN ExtractOld(c, r)
    ELSE IF c.src = "top-gainers" THEN ExtractGainers(c, r)
    ELSE ExtractPage(c, r)

\* const nextButton = await page.$('a[rel="next"]:not(.disabled)'); if (!nextButton) break;
FindNextStep(c, ok, found) ==
    IF ~ok THEN Throw(c, "findNext")
    ELSE LET c1 == [c EXCEPT !.nLookup = @ + 1]
         IN  IF ~found THEN AfterLoop(c1, "end-of-data") ELSE [c1 EXCEPT !.pc = "isDisabled"]

\* Mutant of IsDisabledStep: the answer is not looked at, the control is clicked.
IsDisabledStepIgnored(c, ok, disabled) ==
    IF ~ok THEN Throw(c, "isDisabled") ELSE [c EXCEPT !.pc = "click"]

\* const isDisabled = await page.evaluate(el => ..., nextButton); if (isDisabled) break;
IsDisabledStep(c, ok, disabled) ==
    IF ~ok THEN Throw(c, "isDisabled")
    ELSE IF disabled THEN AfterLoop(c, "end-of-data") ELSE [c EXCEPT !.pc = "click"]

\* try { await nextButton.click();
ClickStep(c, ok) ==
    LET c1 == [c EXCEPT !.nClick = @ + 1]
    IN  IF ok THEN [c1 EXCEPT !.loading = TRUE, !.pc = "sleep"] ELSE NavCatch(c1, "click")

\* await page.waitForTimeout(1500);
SleepStep(c, ok) == IF ok THEN [c EXCEPT !.pc = "waitRows"] ELSE NavCatch(c, "sleep")

\* await page.waitForSelector('table tbody tr', { timeout: 10000 }); } catch { break; }
\* pageCount++;
WaitRowsStep(c, ok) ==
    IF ok THEN LoopHead([c EXCEPT !.pageCount = @ + 1]) ELSE NavCatch(c, "waitRows")

\* scrapeFloorSheet: const hasNext = await page.evaluate(...); if (!hasNext) break;
HasNextStep(c, ok, hasNext) ==
    IF ~ok THEN Throw(c, "hasNext")
    ELSE LET c1 == [c EXCEPT !.nLookup = @ + 1]
         IN  IF ~hasNext THEN AfterLoop(c1, "end-of-data") ELSE [c1 EXCEPT !.pc = "clickEval"]

\* scrapeFloorSheet: await page.evaluate(() => { if (nextBtn) nextBtn.click(); });
ClickEvalStep(c, ok, clicked) ==
    IF ~ok THEN Throw([c EXCEPT !.nClick = @ + 1], "clickEval")
    ELSE IF clicked THEN [c EXCEPT !.nClick = @ + 1, !.loading = TRUE, !.pc = "sleepF"]
    ELSE [c EXCEPT !.pc = "sleepF"]

\* scrapeFloorSheet: await page.waitForTimeout(2000);
SleepFStep(c, ok) == IF ok THEN [c EXCEPT !.pc = "rowCount"] ELSE Throw(c, "sleepF")

\* scrapeFloorSheet: const newRowCount = await page.evaluate(...);
\* if (newRowCount === 0) break; pageCount++;
RowCountStep(c, ok, n) ==
    IF ~ok THEN Throw(c, "rowCount")
    ELSE IF n = 0 THEN AfterLoop(c, "navigation-failed")
    ELSE LoopHead([c EXCEPT !.pageCount = @ + 1])

\* await browser.close() in the finally block; then the call's promise settles.
CloseStep(c) == [c EXCEPT !.nClose = @ + 1, !.pc = "done", !.outcome = c.pending]

\* The page driver finishes loading the page a click navigated to.
PageLoadStep(c) == [c EXCEPT !.shown = @ + 1, !.loading = FALSE]

\* The page driver's sessions that are open: for each the call that launched it
\* and the call that last operated on it.  A launch opens a session no open
\* session is identical to.
FreshSession(reg) ==
    CHOOSE s \in 1..(Cardinality(DOMAIN reg) + 1) :
        s \notin DOMAIN reg /\ \A t \in 1..(s - 1) : t \in DOMAIN reg

\* The awaits that operate on the session (browser.newPage and the page's methods).
PageOps ==
    {"newPage", "setUserAgent", "goto", "settle", "waitTable", "extract", "findNext",
     "isDisabled", "click", "sleep", "waitRows", "hasNext", "clickEval", "sleepF",
     "rowCount"}

\* Mutant of SessionOf: the calls share one session, the first one open.
SessionPooled(p) ==
    IF DOMAIN hist.sessions = {} THEN call[p].session
    ELSE CHOOSE s \in DOMAIN hist.sessions : \A t \in DOMAIN hist.sessions : s <= t

\* The session the call of process p operates on and closes: the one its local
\* `let browser` was assigned by its own launch.
SessionOf(p) == call[p].session

\* The open sessions after the call of process p has moved from c to d.
Driver(reg, p, c, d) ==
    IF c.pc = "launch"
    THEN IF d.browser THEN reg @@ (d.session :> [opener |-> p, user |-> p]) ELSE reg
    ELSE LET s == SessionOf(p) IN
         IF s \notin DOMAIN reg THEN reg
         ELSE IF c.pc = "close" THEN [x \in DOMAIN reg \ {s} |-> reg[x]]
         ELSE IF c.pc \in PageOps THEN [reg EXCEPT ![s].user = p]
         ELSE reg

\* The call of process p moves to c; g tells whether the page driver was kind.
Step(p, c, g) ==
    /\ call' = [call EXCEPT ![p] = [c EXCEPT !.good = @ /\ g]]
    /\ hist' = [hist EXCEPT !.sessions = Driver(@, p, call[p], c)]
    /\ UNCHANGED <<req, cache, now>>

Launch(p) ==
    /\ call[p].pc = "launch"
    /\ \E ok \in BOOLEAN :
          Step(p, LaunchStep(call[p], ok, FreshSession(hist.sessions)), ok)

NewPage(p) ==
    /\ call[p].pc = "newPage"
    /\ \E ok \in BOOLEAN : Step(p, NewPageStep(call[p], ok), ok)

SetUserAgent(p) ==
    /\ call[p].pc = "setUserAgent"
    /\ \E ok \in BOOLEAN : Step(p, SetUserAgentStep(call[p], ok), ok)

Goto(p) ==
    /\ call[p].pc = "goto"
    /\ \E ok \in BOOLEAN : Step(p, GotoStep(call[p], ok), ok)

Settle(p) ==
    /\ call[p].pc = "settle"
    /\ \E ok \in BOOLEAN : Step(p, SettleStep(call[p], ok), ok)

WaitTable(p) ==
    /\ call[p].pc = "waitTable"
    /\ \E ok \in BOOLEAN : Step(p, WaitTableStep(call[p], ok), ok)

Extract(p) ==
    /\ call[p].pc = "extract"
    /\ \E ok \in BOOLEAN, r \in 0..MaxRows :
          Step(p, ExtractStep(call[p], ok, r), ok /\ r > 0)

FindNext(p) ==
    /\ call[p].pc = "findNext"
    /\ \E ok, found \in BOOLEAN : Step(p, FindNextStep(call[p], ok, found), ok /\ found)

IsDisabled(p) ==
    /\ call[p].pc = "isDisabled"
    /\ \E ok, d \in BOOLEAN : Step(p, IsDisabledStep(call[p], ok, d), ok /\ ~d)

Click(p) ==
    /\ call[p].pc = "click"
    /\ \E ok \in BOOLEAN : Step(p, ClickStep(call[p], ok), ok)

Sleep(p) ==
    /\ call[p].pc = "sleep"
    /\ \E ok \in BOOLEAN : Step(p, SleepStep(call[p], ok), ok)

WaitRows(p) ==
    /\ call[p].pc = "waitRows"
    /\ \E ok \in BOOLEAN : Step(p, WaitRowsStep(call[p], ok), ok)

HasNext(p) ==
    /\ call[p].pc = "hasNext"
    /\ \E ok, h \in BOOLEAN : Step(p, HasNextStep(call[p], ok, h), ok /\ h)

ClickEval(p) ==
    /\ call[p].pc = "clickEval"
    /\ \E ok, clicked \in BOOLEAN :
          Step(p, ClickEvalStep(call[p], ok, clicked), ok /\ clicked)

SleepF(p) ==
    /\ call[p].pc = "sleepF"
    /\ \E ok \in BOOLEAN : Step(p, SleepFStep(call[p], ok), ok)

RowCount(p) ==
    /\ call[p].pc = "rowCount"
    /\ \E ok \in BOOLEAN, n \in 0..MaxRows :
          Step(p, RowCountStep(call[p], ok, n), ok /\ n > 0)

Close(p) ==
    /\ call[p].pc = "close"
    /\ Step(p, CloseStep(call[p]), TRUE)

PageLoad(p) ==
    /\ call[p].loading
    /\ call[p].pc \notin {"close", "done", "idle"}
    /\ call' = [call EXCEPT ![p] = PageLoadStep(call[p])]
    /\ UNCHANGED <<req, cache, now, hist>>

ScrapeNext(p) ==
    \/ Launch(p) \/ NewPage(p) \/ SetUserAgent(p) \/ Goto(p) \/ Settle(p) \/ WaitTable(p)
    \/ Extract(p) \/ FindNext(p) \/ IsDisabled(p) \/ Click(p) \/ Sleep(p) \/ WaitRows(p)
    \/ HasNext(p) \/ ClickEval(p) \/ SleepF(p) \/ RowCount(p) \/ Close(p) \/ PageLoad(p)

----------------------------------------------------------------------------
(* The TTL cache: getCached, setCache *)

\* What getCached returns: null, or the array stored.
Null == [isNull |-> TRUE, data |-> <<>>]
Value(v) == [isNull |-> FALSE, data |-> v]

\* Mutant of Truthy: an empty array taken for a miss.
TruthyNonEmpty(x) == ~x.isNull /\ Len(x.data) > 0

\* JavaScript truthiness of a getCached result in if (cached): null is falsy,
\* every array (the empty one too) is truthy.
Truthy(x) == ~x.isNull

\* Mutant of CacheGet: the entry is dropped already at the expiry instant.
CacheGetStrict(m, k, t) ==
    IF k \notin DOMAIN m THEN [ret |-> Null, cache |-> m]
    ELSE IF t >= m[k].expiry
         THEN [ret |-> Null, cache |-> [x \in DOMAIN m \ {k} |-> m[x]]]
         ELSE [ret |-> Value(m[k].data), cache |-> m]

\* Mutant of CacheGet: an expired entry is reported absent but left in the Map.
CacheGetNoEvict(m, k, t) ==
    IF k \notin DOMAIN m THEN [ret |-> Null, cache |-> m]
    ELSE IF t > m[k].expiry
         THEN [ret |-> Null, cache |-> m]
         ELSE [ret |-> Value(m[k].data), cache |-> m]

\* Mutant of CacheGet: a hit renews the entry (sliding expiry).
CacheGetRenew(m, k, t) ==
    IF k \notin DOMAIN m THEN [ret |-> Null, cache |-> m]
    ELSE IF t > m[k].expiry
         THEN [ret |-> Null, cache |-> [x \in DOMAIN m \ {k} |-> m[x]]]
         ELSE [ret |-> Value(m[k].data),
               cache |-> [m EXCEPT ![k].expiry = t + CACHE_TTL]]

\* getCached(key) on Map m at Date.now() = t: the value returned and the Map left.
CacheGet(m, k, t) ==
    IF k \notin DOMAIN m THEN [ret |-> Null, cache |-> m]
    ELSE IF t > m[k].expiry
         THEN [ret |-> Null, cache |-> [x \in DOMAIN m \ {k} |-> m[x]]]
         ELSE [ret |-> Value(m[k].data), cache |-> m]

\* Mutant of CachePut: a write also sweeps out the expired entries of other keys.
CachePutSweep(m, k, data, ttl, t) ==
    [x \in {y \in DOMAIN m : t <= m[y].expiry} \cup {k} |->
        IF x = k THEN [data |-> data, expiry |-> t + ttl] ELSE m[x]]

\* Mutant of CachePut: an entry that is still to expire later keeps its expiry.
CachePutKeepLater(m, k, data, ttl, t) ==
    [x \in DOMAIN m \cup {k} |->
        IF x = k
        THEN [data |-> data,
              expiry |-> IF k \in DOMAIN m /\ m[k].expiry > t + ttl
                         THEN m[k].expiry ELSE t + ttl]
        ELSE m[x]]

\* Mutant of CachePut: a key that already has an entry keeps it (first writer wins).
CachePutIfAbsent(m, k, data, ttl, t) ==
    IF k \in DOMAIN m THEN m
    ELSE [x \in DOMAIN m \cup {k} |->
             IF x = k THEN [data |-> data, expiry |-> t + ttl] ELSE m[x]]

\* Mutant of CachePut: an empty result is not stored.
CachePutSkipEmpty(m, k, data, ttl, t) ==
    IF data = <<>> THEN m
    ELSE [x \in DOMAIN m \cup {k} |->
             IF x = k THEN [data |-> data, expiry |-> t + ttl] ELSE m[x]]

\* setCache(key, data, ttl) on Map m at Date.now() = t.
CachePut(m, k, data, ttl, t) ==
    [x \in DOMAIN m \cup {k} |->
        IF x = k THEN [data |-> data, expiry |-> t + ttl] ELSE m[x]]

\* The history kept of the cache operations: the last operation with what it saw
\* and returned, and per key its last write.
GetRecord(m, k, t, got) ==
    [op |-> "get", key |-> k, at |-> t, ret |-> got.ret,
     had |-> k \in DOMAIN m,
     expiry |-> IF k \in DOMAIN m THEN m[k].expiry ELSE 0,
     stored |-> IF k \in DOMAIN m THEN m[k].data ELSE <<>>]

PutRecord(m, k, data, ttl, t) ==
    [op |-> "put", key |-> k, at |-> t, data |-> data, ttl |-> ttl,
     had |-> k \in DOMAIN m,
     expiry |-> IF k \in DOMAIN m THEN m[k].expiry ELSE 0,
     stored |-> IF k \in DOMAIN m THEN m[k].data ELSE <<>>]

NotePut(lp, k, data, ttl, t) ==
    [x \in DOMAIN lp \cup {k} |->
        IF x = k THEN [data |-> data, at |-> t, ttl |-> ttl] ELSE lp[x]]

\* The decimal text of an integer, as a template literal prints it.
DigitChars == <<"0", "1", "2", "3", "4", "5", "6", "7", "8", "9">>

RECURSIVE NatStr(_)
NatStr(n) == IF n < 10 THEN <<DigitChars[n + 1]>>
             ELSE NatStr(n \div 10) \o <<DigitChars[(n % 10) + 1]>>

IntStr(n) == IF n < 0 THEN <<"-">> \o NatStr(0 - n) ELSE NatStr(n)

\* Mutant of CacheKey: the key names the source and the limit only.
CacheKeyNoPages(src, limit, maxPages) ==
    IF src = "top-gainers" THEN <<"top-gainers">>
    ELSE <<src, "-">> \o IntStr(limit)

\* `${prefix}-${limit}-${maxPages}`, a string as the sequence of its pieces.
CacheKey(src, limit, maxPages) ==
    IF src = "top-gainers" THEN <<"top-gainers">>
    ELSE <<src, "-">> \o IntStr(limit) \o <<"-">> \o IntStr(maxPages)

\* The clock advances by d (at most max times).
Tick(d, max) ==
    /\ hist.ticks < max
    /\ now' = now + d
    /\ hist' = [hist EXCEPT !.ticks = @ + 1, !.last = [op |-> "tick"]]
    /\ UNCHANGED <<call, req, cache>>

\* A call of getCached(k).
GetCached(k) ==
    LET got == CacheGet(cache, k, now)
    IN  /\ cache' = got.cache
        /\ hist' = [hist EXCEPT !.last = GetRecord(cache, k, now, got)]
        /\ UNCHANGED <<call, req, now>>

\* A call of setCache(k, data, ttl).
SetCache(k, data, ttl) ==
    /\ cache' = CachePut(cache, k, data, ttl, now)
    /\ hist' = [hist EXCEPT !.last = PutRecord(cache, k, data, ttl, now),
                            !.lastPut = NotePut(@, k, data, ttl, now)]
    /\ UNCHANGED <<call, req, now>>

----------------------------------------------------------------------------
(* The record normalizer: the row => {...} callback of each page.evaluate *)

\* A text is the sequence of its characters.  String.prototype.trim() removes
\* the white space at both ends.
Space == {" ", "\t", "\n"}

RECURSIVE TrimStart(_)
TrimStart(t) == IF t # <<>> /\ Head(t) \in Space THEN TrimStart(Tail(t)) ELSE t

RECURSIVE TrimEnd(_)
TrimEnd(t) ==
    IF t # <<>> /\ t[Len(t)] \in Space THEN TrimEnd(SubSeq(t, 1, Len(t) - 1)) ELSE t

Trim(t) == TrimEnd(TrimStart(t))

\* The column map of each source: the field read from cells[0], cells[1], ...
Schema(src) ==
    IF src = "todays-price"
    THEN <<"sn", "symbol", "ltp", "change", "percentChange", "open", "high", "low",
           "volume", "previousClose">>
    ELSE IF src = "live-trading"
    THEN <<"symbol", "ltp", "change", "percentChange", "volume", "high", "low">>
    ELSE IF src = "top-gainers"
    THEN <<"symbol", "ltp", "change", "percentChange">>
    ELSE <<"pageSn", "contractNo", "symbol", "buyerMemberId", "sellerMemberId",
           "quantity", "rate", "amount">>

\* Mutant of Field: no optional chaining, a missing cell is a TypeError.
FieldUnguarded(cells, i) ==
    IF i >= Len(cells) THEN <<"TypeError">> ELSE Trim(cells[i + 1])

\* cells[i]?.textContent.trim() || ''  (i counts from 0; cells[i] is undefined
\* past the end of the row, and an empty text is replaced by the empty text).
Field(cells, i) ==
    IF i >= Len(cells) THEN <<>>
    ELSE LET text == Trim(cells[i + 1]) IN IF text = <<>> THEN <<>> ELSE text

\* new Date().toISOString() at time t.
IsoString(t) == <<"T">> \o IntStr(t)

\* The record made of the row with the given cells.
Normalize(src, cells, t) ==
    LET schema == Schema(src)
        names == {schema[i] : i \in 1..Len(schema)}
    IN  [f \in names \cup {"timestamp"} |->
            IF f = "timestamp" THEN IsoString(t)
            ELSE Field(cells, (CHOOSE i \in 1..Len(schema) : schema[i] = f) - 1)]

\* part_000: the record scrapeTodaysPrice makes has the timestamp, the records
\* of scrapeLiveTrading and scrapeTopGainers have the columns only.
NormalizeOld(src, cells, t) ==
    LET schema == Schema(src)
        names == {schema[i] : i \in 1..Len(schema)}
    IN  IF src = "todays-price" THEN Normalize(src, cells, t)
        ELSE [f \in names |->
                 Field(cells, (CHOOSE i \in 1..Len(schema) : schema[i] = f) - 1)]

----------------------------------------------------------------------------
(* The HTTP handlers of index.js: /api/todays-price, /api/live-trading,    *)
(* /api/top-gainers, /api/floor-sheet                                      *)

\* A query parameter: absent, or the text of an integer.
Absent == [present |-> FALSE, val |-> 0]
Given(n) == [present |-> TRUE, val |-> n]

LimitCap(src) == IF src = "live-trading" THEN 100 ELSE 200
LimitDefault(src) == IF src = "live-trading" THEN 30 ELSE 50
PagesCap(src) == IF src = "live-trading" THEN 3 ELSE 5
PagesDefault(src) == IF src = "live-trading" THEN 2 ELSE 3

\* Mutant of ResolveLimit: without a limit in the query only the cap applies.
ResolveLimitCapOnly(src, q) == IF q.present THEN Min(q.val, LimitCap(src)) ELSE LimitCap(src)

\* req.query.limit ? Math.min(parseInt(req.query.limit), cap) : default
ResolveLimit(src, q) == IF q.present THEN Min(q.val, LimitCap(src)) ELSE LimitDefault(src)

\* req.query.pages ? Math.min(parseInt(req.query.pages), cap) : default
ResolvePages(src, q) == IF q.present THEN Min(q.val, PagesCap(src)) ELSE PagesDefault(src)

\* The ttl each handler stores its result with.
HandlerTtl(src) == IF src = "live-trading" THEN LIVE_TTL ELSE CACHE_TTL

\* Mutant of HandlerStore: the handler stores whatever the call left, an empty
\* result when it failed.
HandlerStoreAlways(m, r, c, t) == CachePut(m, r.key, c.result, HandlerTtl(r.src), t)

\* What the handler does to the Map m once its awaited scrape c has settled:
\* setCache(cacheKey, data) after the await, skipped when the await throws.
HandlerStore(m, r, c, t) ==
    IF c.outcome = "ok" THEN CachePut(m, r.key, c.result, HandlerTtl(r.src), t) ELSE m

\* The handler's locals: the query as received, the resolved arguments, the key.
NoReq ==
    [pc |-> "idle", src |-> "top-gainers", key |-> <<>>, recvAt |-> 0,
     limitQ |-> Absent, pagesQ |-> Absent, limit |-> 0, maxPages |-> 0]

\* One line of the response log: what was answered to which request.
Response(r, success, data, cached, wrote) ==
    [src |-> r.src, key |-> r.key, recvAt |-> r.recvAt, at |-> now,
     success |-> success, data |-> data, totalRecords |-> Len(data),
     cached |-> cached, wrote |-> wrote]

\* A request arrives and its handler runs up to the response (cache hit) or up
\* to the first await of the scrape it calls (miss).
Arrive(p, src, limitQ, pagesQ) ==
    LET limit == IF src = "top-gainers" THEN 0 ELSE ResolveLimit(src, limitQ)
        maxPages == IF src = "top-gainers" THEN 0 ELSE ResolvePages(src, pagesQ)
        key == CacheKey(src, limit, maxPages)
        got == CacheGet(cache, key, now)
        r == [pc |-> "awaitScrape", src |-> src, key |-> key, recvAt |-> now,
              limitQ |-> limitQ, pagesQ |-> pagesQ, limit |-> limit, maxPages |-> maxPages]
    IN  /\ req[p].pc = "idle"
        /\ call[p].pc = "idle"
        /\ cache' = got.cache
        /\ now' = now
        /\ IF Truthy(got.ret)
           THEN /\ req' = req
                /\ call' = call
                /\ hist' = [hist EXCEPT !.reqs = @ + 1,
                                        !.last = GetRecord(cache, key, now, got),
                                        !.log = Append(@, Response(r, TRUE, got.ret.data, TRUE, FALSE))]
           ELSE /\ req' = [req EXCEPT ![p] = r]
                /\ call' = [call EXCEPT ![p] = NewCall("opt", src, limit, maxPages)]
                /\ hist' = [hist EXCEPT !.reqs = @ + 1,
                                        !.last = GetRecord(cache, key, now, got)]

\* At most MaxReqs requests arrive.
Receive(p, src, limitQ, pagesQ) == hist.reqs < MaxReqs /\ Arrive(p, src, limitQ, pagesQ)

\* The awaited scrape has settled: setCache and the success response, or the
\* catch block's error response.
Resume(p) ==
    LET c == call[p]
        r == req[p]
        ttl == HandlerTtl(r.src)
    IN  /\ r.pc = "awaitScrape"
        /\ c.pc = "done"
        /\ req' = [req EXCEPT ![p] = NoReq]
        /\ call' = [call EXCEPT ![p] = NoCall]
        /\ now' = now
        /\ cache' = HandlerStore(cache, r, c, now)
        /\ IF c.outcome = "ok"
           THEN /\ hist' = [hist EXCEPT !.last = PutRecord(cache, r.key, c.result, ttl, now),
                                        !.lastPut = NotePut(@, r.key, c.result, ttl, now),
                                        !.log = Append(@, Response(r, TRUE, c.result, FALSE, TRUE))]
           ELSE /\ hist' = [hist EXCEPT !.log = Append(@, Response(r, FALSE, <<>>, FALSE, FALSE))]

----------------------------------------------------------------------------
(* Spec: one scrape call, for every argument and every page driver behaviour *)

\* The arguments a scraper can be called with.  The handlers pass any integer
\* the query held (capped from above only), so non-positive values are included.
LimitArgs == -1..MaxLimit
PagesArgs == 0..MaxPagesArg

CallArgs ==
    {NewCall("opt", s, l, m) : s \in Paginated, l \in LimitArgs, m \in PagesArgs}
    \cup {NewCall("opt", "top-gainers", 0, 0)}
    \cup {NewCall("old", s, l, 0) : s \in {"todays-price", "live-trading"}, l \in LimitArgs}
    \cup {NewCall("old", "top-gainers", 0, 0)}

NoHist ==
    [ticks |-> 0, reqs |-> 0, last |-> [op |-> "none"], lastPut |-> <<>>, log |-> <<>>,
     sessions |-> <<>>]

Init ==
    /\ call \in [Procs -> CallArgs]
    /\ req = [p \in Procs |-> NoReq]
    /\ cache = <<>>
    /\ now = 0
    /\ hist = NoHist

Next == \E p \in Procs : ScrapeNext(p)

Spec == Init /\ [][Next]_vars

\* SpecLive: the same call, when every page driver operation awaited eventually
\* resolves or rejects (puppeteer's timeouts), so that the call is never left
\* suspended at an await for ever.
SpecLive == Init /\ [][Next]_vars /\ WF_vars(Next)

----------------------------------------------------------------------------
(* SpecCache: getCached and setCache called with any key, value and ttl at any time *)

CacheKeys == {CacheKey("top-gainers", 0, 0), CacheKey("live-trading", 30, 2)}
CacheValues == {<<>>, Rows(1, 1)}
CacheTtls == {CACHE_TTL, LIVE_TTL}
FineSteps == {1, LIVE_TTL - 1, CACHE_TTL - LIVE_TTL}

InitIdle ==
    /\ call = [p \in Procs |-> NoCall]
    /\ req = [p \in Procs |-> NoReq]
    /\ cache = <<>>
    /\ now = 0
    /\ hist = NoHist

NextCache ==
    \/ \E k \in CacheKeys : GetCached(k)
    \/ \E k \in CacheKeys, v \in CacheValues, ttl \in CacheTtls : SetCache(k, v, ttl)
    \/ \E d \in FineSteps : Tick(d, MaxTicks)

SpecCache == InitIdle /\ [][NextCache]_vars

----------------------------------------------------------------------------
(* SpecApi: requests handled one after the other, each through its scrape *)

\* The requests received: each endpoint, with two rows and two pages asked for
\* (live-trading leaves pages to its default of 2).
ApiRequests ==
    {<<"todays-price", Given(2), Given(2)>>, <<"live-trading", Given(2), Absent>>,
     <<"top-gainers", Absent, Absent>>, <<"floor-sheet", Given(2), Given(2)>>}
CoarseSteps == {LIVE_TTL, 2 * CACHE_TTL}

\* Time passes between one request and the next.
BetweenRequests == hist.reqs < MaxReqs /\ \A p \in Procs : req[p].pc = "idle"

NextApi ==
    \/ \E p \in Procs, q \in ApiRequests : Receive(p, q[1], q[2], q[3])
    \/ \E p \in Procs : Resume(p)
    \/ \E p \in Procs : ScrapeNext(p)
    \/ \E d \in CoarseSteps : BetweenRequests /\ Tick(d, MaxApiTicks)

SpecApi == InitIdle /\ [][NextApi]_vars

----------------------------------------------------------------------------
(* SpecDefaults: one request that leaves limit or pages out, against full pages *)

DefaultRequests ==
    {<<s, Absent, Absent>> : s \in Paginated}
    \cup {<<s, Absent, Given(1)>> : s \in Paginated}
    \cup {<<s, Given(1), Absent>> : s \in Paginated}

\* The row extraction on a page that shows a full table.
ExtractMany(p) ==
    /\ call[p].pc = "extract"
    /\ Step(p, ExtractStep(call[p], TRUE, BigPage), TRUE)

NextDefaults ==
    \/ \E p \in Procs, q \in DefaultRequests :
          hist.reqs = 0 /\ Receive(p, q[1], q[2], q[3])
    \/ \E p \in Procs : Resume(p)
    \/ \E p \in Procs : ScrapeNext(p)
    \/ \E p \in Procs : ExtractMany(p)

SpecDefaults == InitIdle /\ [][NextDefaults]_vars

----------------------------------------------------------------------------
(* SpecConc: two requests in flight at once, their scrapes interleaved at the awaits *)

Clients == {1, 2}

ConcRequests ==
    {<<"live-trading", Given(2), Given(2)>>, <<"floor-sheet", Given(2), Given(2)>>}

InitConc ==
    /\ call = [p \in Clients |-> NoCall]
    /\ req = [p \in Clients |-> NoReq]
    /\ cache = <<>>
    /\ now = 0
    /\ hist = NoHist

NextConc ==
    \/ \E p \in Clients, q \in ConcRequests : Receive(p, q[1], q[2], q[3])
    \/ \E p \in Clients : Resume(p)
    \/ \E p \in Clients : ScrapeNext(p)

SpecConc == InitConc /\ [][NextConc]_vars

----------------------------------------------------------------------------
(* SpecRace: requests for the same key in flight at once, with the clock moving *)

\* The request that is repeated: /api/todays-price?limit=2&pages=1, whose scrape
\* visits one page.
RaceRequests == {<<"todays-price", Given(2), Given(1)>>}
RaceSteps == {1}

\* The awaits of a call that visits one page: those of scrapeTodaysPrice called
\* with maxPages = 1, whose loop is left before page.$ (and of scrapeTopGainers).
ScrapeOnePage(p) ==
    \/ Launch(p) \/ NewPage(p) \/ SetUserAgent(p) \/ Goto(p) \/ WaitTable(p)
    \/ Extract(p) \/ Close(p)

NextRace ==
    \/ \E p \in Clients, q \in RaceRequests :
          hist.reqs < MaxRaceReqs /\ Arrive(p, q[1], q[2], q[3])
    \/ \E p \in Clients : Resume(p)
    \/ \E p \in Clients : ScrapeOnePage(p)
    \/ \E d \in RaceSteps : Tick(d, MaxRaceTicks)

SpecRace == InitConc /\ [][NextRace]_vars

----------------------------------------------------------------------------
(* SpecNormalize: a scrape of each source against a table row of any shape *)

\* How the cells of a row are filled: cell i holds the digits of i as they are,
\* between white space, twice with a blank between, or holds only white space
\* or nothing; in a mixed row the even cells hold only white space.
CellStyles == {"plain", "padded", "inner", "blank", "empty", "mixed"}

CellText(style, i) ==
    IF style = "plain" THEN IntStr(i)
    ELSE IF style = "padded" THEN <<" ", "\n">> \o IntStr(i) \o <<"\t", " ">>
    ELSE IF style = "inner" THEN IntStr(i) \o <<" ">> \o IntStr(i)
    ELSE IF style = "blank" THEN <<" ", " ">>
    ELSE IF style = "empty" THEN <<>>
    ELSE IF i % 2 = 0 THEN <<"\t">> ELSE <<" ">> \o IntStr(i)

\* The rows a table can hold: any number of cells up to MaxCells.
RawRow(style, n) == [i \in 1..n |-> CellText(style, i)]

NormalizeCalls ==
    {NewCall("opt", s, 1, 1) : s \in Paginated} \cup {NewCall("opt", "top-gainers", 0, 0)}
    \cup {NewCall("old", s, 1, 0) : s \in {"todays-price", "live-trading"}}
    \cup {NewCall("old", "top-gainers", 0, 0)}

InitNormalize ==
    /\ call \in [Procs -> NormalizeCalls]
    /\ req = [p \in Procs |-> NoReq]
    /\ cache = <<>>
    /\ now = 0
    /\ hist = NoHist

\* The row extraction on a page whose table holds one row of n cells.
ExtractRows(p) ==
    /\ call[p].pc = "extract"
    /\ \E style \in CellStyles, n \in 0..MaxCells :
          LET c == call[p]
              pageData == <<Normalize(c.src, RawRow(style, n), now)>>
              d == IF c.ver = "old"
                   THEN ExtractOldData(c, <<NormalizeOld(c.src, RawRow(style, n), now)>>)
                   ELSE IF c.src = "top-gainers" THEN ExtractGainersData(c, pageData)
                   ELSE ExtractData(c, pageData)
          IN  /\ call' = [call EXCEPT ![p] = d]
              /\ hist' = [hist EXCEPT !.sessions = Driver(@, p, c, d),
                                      !.last = [op |-> "extract", style |-> style,
                                                cells |-> n]]
              /\ UNCHANGED <<req, cache, now>>

NextNormalize ==
    \E p \in Procs :
        \/ Launch(p) \/ NewPage(p) \/ SetUserAgent(p) \/ Goto(p) \/ Settle(p)
        \/ WaitTable(p) \/ ExtractRows(p) \/ Close(p)

SpecNormalize == InitNormalize /\ [][NextNormalize]_vars

----------------------------------------------------------------------------
(* SpecParams: one request with any integer in its query, up to the scrape call *)

QueryInts == {-12, -1, 0, 1, 2, 3, 5, 6, 12, 21, 100, 101, 200, 201}
Queries == {Absent} \cup {Given(n) : n \in QueryInts}

ParamRequests ==
    {<<s, l, m>> : s \in Paginated, l \in Queries, m \in Queries}
    \cup {<<"top-gainers", Absent, Absent>>}

NextParams ==
    \E p \in Procs, q \in ParamRequests : hist.reqs = 0 /\ Arrive(p, q[1], q[2], q[3])

SpecParams == InitIdle /\ [][NextParams]_vars

----------------------------------------------------------------------------
(* SpecScript: scrapeTodaysPrice, scrapeLiveTrading and scrapeFloorSheet called  *)
(* with the same arguments against the same page driver behaviour               *)

\* What the pagination element of a page can be: no a[rel="next"] at all, one
\* that is enabled, one with the class disabled, one with aria-disabled="true",
\* one inside an <li class="disabled">.
Controls == {"absent", "enabled", "classDisabled", "ariaDisabled", "parentDisabled"}

\* page.$('a[rel="next"]:not(.disabled)') returns an element.
FindsNext(ctl) == ctl \notin {"absent", "classDisabled"}

\* el.classList.contains('disabled') || el.getAttribute('aria-disabled') === 'true'
\* in scrapeTodaysPrice; scrapeLiveTrading tests the class only.
ReportsDisabled(src, ctl) ==
    ctl = "classDisabled" \/ (src = "todays-price" /\ ctl = "ariaDisabled")

\* The hasNext evaluate of scrapeFloorSheet.
ReportsNext(ctl) == ctl \notin {"absent", "parentDisabled", "classDisabled"}

\* The behaviour of the page driver on page k of the remote table: the rows the
\* page shows, its pagination element, whether a click on it resolves, and
\* whether rows are present when they are waited for (counted) after the click.
PageBehaviours(k) ==
    [op : {"page"}, page : {k}, rows : 0..MaxRows, ctl : Controls,
     click : BOOLEAN, arrive : BOOLEAN]

ScriptSources == <<"todays-price", "live-trading", "floor-sheet">>

ScriptArgs == {<<l, m>> : l \in 1..MaxLimit, m \in 1..MaxPagesArg}

InitScript ==
    /\ \E a \in ScriptArgs :
          call = [i \in 1..3 |-> NewCall("opt", ScriptSources[i], a[1], a[2])]
    /\ req = [i \in 1..3 |-> NoReq]
    /\ cache = <<>>
    /\ now = 0
    /\ hist \in {[NoHist EXCEPT !.last = b] : b \in PageBehaviours(1)}

\* The await the call is suspended at settles as the behaviour b of the page it
\* is on says; the initial load and the sleeps resolve, and a click that
\* resolves loads the next page at once.  i is the session a launch opens.
Advance(c, b, i) ==
    IF c.pc = "launch" THEN LaunchStep(c, TRUE, i)
    ELSE IF c.pc = "newPage" THEN NewPageStep(c, TRUE)
    ELSE IF c.pc = "setUserAgent" THEN SetUserAgentStep(c, TRUE)
    ELSE IF c.pc = "goto" THEN GotoStep(c, TRUE)
    ELSE IF c.pc = "settle" THEN SettleStep(c, TRUE)
    ELSE IF c.pc = "waitTable" THEN WaitTableStep(c, TRUE)
    ELSE IF c.pc = "extract" THEN ExtractStep(c, TRUE, b.rows)
    ELSE IF c.pc = "findNext" THEN FindNextStep(c, TRUE, FindsNext(b.ctl))
    ELSE IF c.pc = "isDisabled" THEN IsDisabledStep(c, TRUE, ReportsDisabled(c.src, b.ctl))
    ELSE IF c.pc = "click"
         THEN IF b.click THEN PageLoadStep(ClickStep(c, TRUE)) ELSE ClickStep(c, FALSE)
    ELSE IF c.pc = "sleep" THEN SleepStep(c, TRUE)
    ELSE IF c.pc = "waitRows" THEN WaitRowsStep(c, b.arrive)
    ELSE IF c.pc = "hasNext" THEN HasNextStep(c, TRUE, ReportsNext(b.ctl))
    ELSE IF c.pc = "clickEval"
         THEN IF b.click THEN PageLoadStep(ClickEvalStep(c, TRUE, b.ctl # "absent"))
              ELSE ClickEvalStep(c, FALSE, FALSE)
    ELSE IF c.pc = "sleepF" THEN SleepFStep(c, TRUE)
    ELSE IF c.pc = "rowCount" THEN RowCountStep(c, TRUE, IF b.arrive THEN 1 ELSE 0)
    ELSE IF c.pc = "close" THEN CloseStep(c)
    ELSE c

\* The call has reached a page whose behaviour is not chosen yet.
AtNewPage(c) == c.pc = "extract" /\ c.pageCount > hist.last.page

\* The three calls share nothing, so the order of their steps does not matter:
\* each call that can move takes its next step.
AdvanceAll ==
    /\ \E i \in DOMAIN call : call[i].pc # "done" /\ ~AtNewPage(call[i])
    /\ call' = [i \in DOMAIN call |->
                   IF AtNewPage(call[i]) THEN call[i] ELSE Advance(call[i], hist.last, i)]
    /\ UNCHANGED <<req, cache, now, hist>>

\* Every call still running has arrived on the next page: its behaviour is chosen.
TurnPage ==
    /\ \E i \in DOMAIN call : AtNewPage(call[i])
    /\ \A i \in DOMAIN call : call[i].pc = "done" \/ AtNewPage(call[i])
    /\ \E b \in PageBehaviours(hist.last.page + 1) : hist' = [hist EXCEPT !.last = b]
    /\ UNCHANGED <<call, req, cache, now>>

NextScript == AdvanceAll \/ TurnPage

SpecScript == InitScript /\ [][NextScript]_vars

----------------------------------------------------------------------------
(* Properties of a scrape call *)

Returned(c) == c.pc = "done" /\ c.outcome = "ok"
Failed(c) == c.pc = "done" /\ c.outcome = "error"
OptPaginated(c) == c.ver = "opt" /\ c.src \in Paginated

\* The first n elements of s, all of s when it is shorter.
Truncated(s, n) == SubSeq(s, 1, Min(Len(s), n))

CeilDiv(a, b) == (a + b - 1) \div b

\* Every extraction so far returned the same number r >= 1 of rows.
UniformPages(c) ==
    /\ c.batches # <<>>
    /\ \A i \in 1..Len(c.batches) : Len(c.batches[i]) = Len(c.batches[1])

\* C1: a scrape of TodaysPrice, LiveTrading or FloorSheet called with a positive
\* limit N returns at most N records, whichever stop reason ended the run.
C1_ResultWithinLimit ==
    \A p \in Procs :
        LET c == call[p] IN
        (c.src \in Paginated /\ c.limit >= 1 /\ c.pending = "ok")
            => Len(c.result) <= c.limit

\* A run that gathered more than limit rows and returned exactly limit of them.
C1_Witness ==
    \E p \in Procs :
        LET c == call[p] IN
        /\ Returned(c) /\ OptPaginated(c) /\ c.limit >= 1
        /\ Len(Flatten(c.batches)) > c.limit
        /\ Len(c.result) = c.limit

\* C2: a scrape called with maxPages = P >= 1 performs at most P page extractions
\* and at most P-1 invocations of the next control.
C2_PageBound ==
    \A p \in Procs :
        LET c == call[p] IN
        (OptPaginated(c) /\ c.maxPages >= 1)
            => c.nExtract <= c.maxPages /\ c.nClick <= c.maxPages - 1

\* A run that extracted P >= 2 pages and used the next control P-1 times.
C2_Witness ==
    \E p \in Procs :
        LET c == call[p] IN
        /\ Returned(c) /\ OptPaginated(c) /\ c.maxPages >= 2
        /\ c.nExtract = c.maxPages /\ c.nClick = c.maxPages - 1

InitialSteps == {"launch", "newPage", "setUserAgent", "goto", "settle", "waitTable"}

\* C3: a scrape of TodaysPrice, LiveTrading or FloorSheet (called with a positive
\* limit and maxPages) fails only when the initial load (up to the first table
\* wait) fails; no page driver failure on a later step makes the call fail.
C3_OnlyInitialLoadFails ==
    \A p \in Procs :
        LET c == call[p] IN
        (OptPaginated(c) /\ c.limit >= 1 /\ c.maxPages >= 1 /\ Failed(c))
            => c.failedAt \in InitialSteps

\* C4: every session a scrape call opened has been closed exactly once when the
\* call returns or throws, and is never closed twice.
C4_SessionClosedOnce ==
    \A p \in Procs :
        LET c == call[p] IN
        /\ c.nOpen <= 1 /\ c.nClose <= c.nOpen
        /\ (c.browser <=> c.nOpen = 1)
        /\ (c.outcome # "none" => c.nClose = c.nOpen)

\* A call that opened a session, failed at the initial table wait and closed it.
C4_Witness ==
    \E p \in Procs :
        LET c == call[p] IN
        Failed(c) /\ c.failedAt = "waitTable" /\ c.nOpen = 1 /\ c.nClose = 1

NavSteps == {"click", "sleep", "waitRows"}

\* C8: in scrapeTodaysPrice and scrapeLiveTrading, once the click of the next
\* control or the wait after it has failed after k >= 1 extracted pages, the call
\* is on its way out with a success carrying exactly the records of those k pages
\* (cut to limit), and extracts and clicks no more.
C8_NavFailureState(c) ==
    (c.ver = "opt" /\ c.src \in {"todays-price", "live-trading"} /\ c.failedAt \in NavSteps)
        => /\ c.pc \in {"close", "done"}
           /\ c.pending = "ok"
           /\ c.outcome \in {"none", "ok"}
           /\ c.nExtract >= 1 /\ Len(c.batches) = c.nExtract
           /\ c.result = Truncated(Flatten(c.batches), c.limit)

C8_NavFailureIsPartialSuccess ==
    /\ [](\A p \in Procs : C8_NavFailureState(call[p]))
    /\ [][\A p \in Procs :
            call[p].failedAt \in NavSteps
                => /\ call'[p].nExtract = call[p].nExtract
                   /\ call'[p].nClick = call[p].nClick
                   /\ call'[p].result = call[p].result]_vars

\* A call that returned two pages after the wait for the third page failed.
C8_Witness ==
    \E p \in Procs :
        LET c == call[p] IN
        /\ Returned(c) /\ c.src = "live-trading" /\ c.failedAt = "waitRows"
        /\ c.nExtract = 2 /\ Len(c.result) >= 2

\* C9: when every page yields r >= 1 rows, an enabled next control always exists
\* and every navigation succeeds, a scrape with limit L >= 1 and maxPages P >= 1
\* extracts exactly min(P, ceil(L/r)) pages and returns exactly
\* min(L, r * min(P, ceil(L/r))) records.
C9_UniformPagesCount ==
    \A p \in Procs :
        LET c == call[p]
            r == Len(c.batches[1])
            n == Min(c.maxPages, CeilDiv(c.limit, r))
        IN  (OptPaginated(c) /\ c.pc = "done" /\ c.good /\ UniformPages(c)
                /\ c.limit >= 1 /\ c.maxPages >= 1)
                => /\ c.outcome = "ok"
                   /\ c.nExtract = n
                   /\ Len(c.result) = Min(c.limit, r * n)

\* The run of the spec's scenario in small: the last allowed page is fetched, more
\* than limit rows are gathered and limit are returned.
C9_Witness ==
    \E p \in Procs :
        LET c == call[p] IN
        /\ OptPaginated(c) /\ c.pc = "done" /\ c.good /\ UniformPages(c)
        /\ c.maxPages >= 2 /\ c.nExtract = c.maxPages
        /\ Len(Flatten(c.batches)) > c.limit /\ Len(c.result) = c.limit

\* C10: scrapeTopGainers (index.js:500-543) extracts once, never looks for or
\* invokes a next control, and returns exactly the rows of that one page.
C10_TopGainersSinglePage ==
    \A p \in Procs :
        LET c == call[p] IN
        (c.ver = "opt" /\ c.src = "top-gainers")
            => /\ c.nLookup = 0 /\ c.nClick = 0 /\ c.nExtract <= 1
               /\ c.pc \notin {"findNext", "isDisabled", "click", "hasNext", "clickEval"}
               /\ (c.pending = "ok"
                     => /\ c.nExtract = 1
                        /\ c.result = c.batches[1]
                        /\ c.result = Rows(1, Len(c.result)))

\* A top-gainers call that returned a full page.
C10_Witness ==
    \E p \in Procs :
        LET c == call[p] IN
        /\ Returned(c) /\ c.ver = "opt" /\ c.src = "top-gainers"
        /\ Len(c.result) = MaxRows /\ c.nExtract = 1

----------------------------------------------------------------------------
(* Properties of the cache *)

LastGet == hist.last.op = "get"

\* C5 as stated: getCached returns the stored value only strictly before the
\* expiry; at the expiry instant and after it, it returns absent and removes the
\* entry.
C5_HitOnlyStrictlyBeforeExpiry ==
    (LastGet /\ hist.last.had)
        => LET g == hist.last IN
           IF g.at < g.expiry
           THEN g.ret = Value(g.stored)
           ELSE g.ret = Null /\ g.key \notin DOMAIN cache

\* C5 amended: getCached returns the stored value exactly when the current time
\* is at or before the entry's expiry and then leaves the entry in place;
\* strictly after the expiry it returns absent and removes the entry; for a key
\* without entry it returns absent.
C5_HitUntilExpiryInclusive ==
    LastGet
        => LET g == hist.last IN
           IF g.had /\ g.at <= g.expiry
           THEN /\ g.ret = Value(g.stored)
                /\ g.key \in DOMAIN cache
                /\ cache[g.key] = [data |-> g.stored, expiry |-> g.expiry]
           ELSE g.ret = Null /\ g.key \notin DOMAIN cache

\* A read at the expiry instant itself, which returned the value.
C5_Witness ==
    /\ LastGet /\ hist.last.had
    /\ hist.last.at = hist.last.expiry
    /\ hist.last.ret = Value(hist.last.stored)

\* C6: with w the last setCache(k, v, T) at time t, a getCached(k) before t+T
\* returns v; a getCached(k) strictly after t+T returns absent and leaves no entry
\* for k, so that k stays absent until it is written again; an entry in the Map
\* is always the one its last write stored.
C6_ReadsFollowLastWrite ==
    /\ \A k \in DOMAIN cache :
          /\ k \in DOMAIN hist.lastPut
          /\ cache[k] = [data |-> hist.lastPut[k].data,
                         expiry |-> hist.lastPut[k].at + hist.lastPut[k].ttl]
    /\ (LastGet /\ hist.last.key \in DOMAIN hist.lastPut)
          => LET g == hist.last
                 w == hist.lastPut[g.key]
             IN  /\ (g.at < w.at + w.ttl => g.ret = Value(w.data))
                 /\ (g.at > w.at + w.ttl => g.ret = Null /\ g.key \notin DOMAIN cache)
                 /\ (~g.had => g.ret = Null /\ g.key \notin DOMAIN cache)

\* The scenario of the spec: the value written with the one minute ttl is read one
\* millisecond after its expiry, is reported absent and is gone.
C6_Witness ==
    /\ LastGet /\ hist.last.had /\ hist.last.ret = Null
    /\ hist.last.key \in DOMAIN hist.lastPut
    /\ hist.lastPut[hist.last.key].ttl = LIVE_TTL
    /\ hist.last.at = hist.lastPut[hist.last.key].at + LIVE_TTL + 1
    /\ hist.last.key \notin DOMAIN cache

LastPut == hist.last.op = "put"

\* C11: setCache(key, value, ttl) at time t leaves the entry for key equal to
\* exactly {value, expiry = t + ttl} whatever entry was there before, leaves every
\* other entry alone, and a getCached(key) that follows immediately returns value.
C11_PutOverwrites ==
    /\ [](LastPut
            => LET w == hist.last IN
               /\ w.key \in DOMAIN cache
               /\ cache[w.key] = [data |-> w.data, expiry |-> w.at + w.ttl])
    /\ [][(LastPut /\ hist'.last.op = "get" /\ hist'.last.key = hist.last.key)
            => /\ hist'.last.ret = Value(hist.last.data)
               /\ cache' = cache]_vars

\* A one minute write over an entry that held other data and was to expire later:
\* the entry now holds the new data and the earlier expiry.
C11_Witness ==
    /\ LastPut /\ hist.last.had
    /\ hist.last.ttl = LIVE_TTL
    /\ hist.last.stored # hist.last.data
    /\ hist.last.expiry > hist.last.at + LIVE_TTL
    /\ cache[hist.last.key] = [data |-> hist.last.data, expiry |-> hist.last.at + LIVE_TTL]

\* C28: an entry leaves the Map only by a getCached of its own key at a time
\* after its expiry, and changes or appears only by a setCache of its own key;
\* an operation on one key leaves every other key's entry as it is, a getCached
\* that returns a value changes nothing, and the passing of time removes
\* nothing, so that an expired entry that is not read stays stored.
C28_OnlyOwnKeyOperationsChangeAnEntry ==
    /\ [][\A k \in DOMAIN cache :
              /\ k \notin DOMAIN cache'
                    => /\ hist'.last.op = "get" /\ hist'.last.key = k
                       /\ hist'.last.at = now /\ now > cache[k].expiry
              /\ (k \in DOMAIN cache' /\ cache'[k] # cache[k])
                    => hist'.last.op = "put" /\ hist'.last.key = k]_vars
    /\ [][\A k \in DOMAIN cache' \ DOMAIN cache :
              hist'.last.op = "put" /\ hist'.last.key = k]_vars
    /\ [][(hist'.last.op = "get" /\ ~hist'.last.ret.isNull) => cache' = cache]_vars
    /\ [][now' # now => cache' = cache]_vars

\* An entry that expired is still stored after the other key was written and
\* read later than its expiry.
C28_Witness ==
    \E k \in DOMAIN cache :
        /\ now > cache[k].expiry
        /\ LastGet /\ hist.last.key # k /\ hist.last.at > cache[k].expiry
        /\ hist.last.key \in DOMAIN hist.lastPut
        /\ hist.lastPut[hist.last.key].at > cache[k].expiry
        /\ ~hist.last.ret.isNull

----------------------------------------------------------------------------
(* Properties of the handlers *)

\* Response j answers a request that arrived after response i was sent, for the
\* same cache key, within the ttl window of the cache write response i made.
SecondWithinWindow(i, j) ==
    LET a == hist.log[i]
        b == hist.log[j]
    IN  /\ i < j
        /\ a.wrote
        /\ b.key = a.key
        /\ b.recvAt >= a.at
        /\ b.recvAt <= a.at + HandlerTtl(a.src)
        /\ \A m \in (i + 1)..(j - 1) : ~(hist.log[m].key = a.key /\ hist.log[m].wrote)

\* C7: of two sequential requests with identical parameters, the second arriving
\* within the ttl window of the first's cache write, the second returns the same
\* data as the first (the empty sequence included) with cached = true, and the
\* first response carries no cached flag.
C7_CacheHitIdempotent ==
    \A i, j \in 1..Len(hist.log) :
        SecondWithinWindow(i, j)
            => LET a == hist.log[i]
                   b == hist.log[j]
               IN  /\ a.success /\ ~a.cached
                   /\ b.success /\ b.cached
                   /\ b.data = a.data
                   /\ b.totalRecords = a.totalRecords

\* A request whose scrape returned no rows, answered again from the cache.
C7_Witness ==
    \E i, j \in 1..Len(hist.log) :
        /\ SecondWithinWindow(i, j)
        /\ hist.log[i].data = <<>>
        /\ hist.log[j].cached /\ hist.log[j].data = <<>>
        /\ hist.log[j].recvAt > hist.log[i].at

StopReasons ==
    {"limit-reached", "page-cap-reached", "no-data", "end-of-data", "navigation-failed",
     "loop-exit", "single-page"}

\* The handler of process p resumes after its scrape has returned.
ResumesReturned(p) ==
    /\ req[p].pc = "awaitScrape" /\ req'[p].pc = "idle"
    /\ call[p].pc = "done" /\ call[p].outcome = "ok"

\* C12: whenever a scrape returns, whatever its stop reason and also when its
\* result is partial or empty, the handler stores exactly the returned sequence
\* under the request's cache key (with the endpoint's ttl) and responds with it.
C12_ReturnedResultStored ==
    [][\A p \in DOMAIN call :
          ResumesReturned(p)
              => /\ call[p].stop \in StopReasons
                 /\ req[p].key \in DOMAIN cache'
                 /\ cache'[req[p].key] =
                        [data |-> call[p].result, expiry |-> now + HandlerTtl(req[p].src)]
                 /\ Len(hist'.log) = Len(hist.log) + 1
                 /\ LET a == hist'.log[Len(hist'.log)] IN
                    /\ a.success /\ ~a.cached
                    /\ a.key = req[p].key
                    /\ a.data = call[p].result]_vars

\* An empty result and then a partial one (one row where two were asked for), both
\* stored as returned.
C12_Witness ==
    \E i, j \in 1..Len(hist.log) :
        LET a == hist.log[i]
            b == hist.log[j]
        IN  /\ i < j /\ a.key # b.key
            /\ a.wrote /\ a.data = <<>>
            /\ b.wrote /\ Len(b.data) = 1
            /\ a.key \in DOMAIN cache /\ cache[a.key].data = <<>>
            /\ b.key \in DOMAIN cache /\ cache[b.key].data = b.data

\* C13 as stated: a request without limit is not truncated by any record count
\* and returns every row of every page visited; a request without pages value is
\* not stopped by any page cap.
C13_AbsentMeansUnbounded ==
    \A p \in Procs :
        LET c == call[p]
            r == req[p]
        IN  (r.pc = "awaitScrape" /\ c.pending = "ok")
                => /\ (~r.limitQ.present => c.result = Flatten(c.batches))
                   /\ (~r.pagesQ.present => c.stop \notin {"page-cap-reached", "loop-exit"})

\* C13 amended: a request without limit is scraped with the default limit (50,
\* live-trading 30) and its result is the rows of the pages visited cut to that
\* many; a request without pages value is scraped with the default page cap (3,
\* live-trading 2) and visits at most that many pages.
C13_AbsentMeansDefault ==
    \A p \in Procs :
        LET c == call[p]
            r == req[p]
            l == IF r.src = "live-trading" THEN 30 ELSE 50
            m == IF r.src = "live-trading" THEN 2 ELSE 3
        IN  r.pc = "awaitScrape"
                => /\ ~r.limitQ.present
                        => /\ c.limit = l
                           /\ c.pending = "ok"
                                => /\ Len(c.result) <= l
                                   /\ c.result = Truncated(Flatten(c.batches), l)
                   /\ ~r.pagesQ.present
                        => /\ c.maxPages = m
                           /\ c.nExtract <= m /\ c.nClick <= m - 1

\* A todays-price request without limit and pages: three full pages are visited
\* and the first 50 of their rows are returned.
C13_Witness ==
    \E p \in Procs :
        LET c == call[p]
            r == req[p]
        IN  /\ r.pc = "awaitScrape" /\ r.src = "todays-price"
            /\ ~r.limitQ.present /\ ~r.pagesQ.present
            /\ Returned(c) /\ c.nExtract = 3
            /\ Len(Flatten(c.batches)) > 50 /\ Len(c.result) = 50

----------------------------------------------------------------------------
(* Properties of concurrent requests *)

InFlight(c) == c.pc \notin {"idle", "done"}

\* The call of process p holds a session it has not closed yet.
HoldsSession(p) == call[p].browser /\ call[p].nClose = 0 /\ call[p].pc # "idle"

\* C14: with several requests in flight, every open session was launched by an
\* in-flight call that still holds it, has been operated on by that call only and
\* is closed by that call only; two calls never hold the same session; and when no
\* scrape is in flight no session is open.
C14_SessionPerCall ==
    /\ [](/\ \A s \in DOMAIN hist.sessions :
                LET o == hist.sessions[s].opener IN
                /\ hist.sessions[s].user = o
                /\ InFlight(call[o]) /\ HoldsSession(o) /\ call[o].session = s
          /\ \A p \in DOMAIN call :
                HoldsSession(p)
                    => /\ call[p].session \in DOMAIN hist.sessions
                       /\ hist.sessions[call[p].session].opener = p
          /\ \A p, q \in DOMAIN call :
                (p # q /\ HoldsSession(p) /\ HoldsSession(q))
                    => call[p].session # call[q].session
          /\ (\A p \in DOMAIN call : ~InFlight(call[p])) => DOMAIN hist.sessions = {})
    /\ [][\A s \in DOMAIN hist.sessions :
              s \notin DOMAIN hist'.sessions
                  => LET o == hist.sessions[s].opener IN
                     call[o].pc = "close" /\ call'[o].pc = "done"]_vars

\* Two scrapes of the same source in flight at once, each on the second page of
\* its own session.
C14_Witness ==
    /\ Cardinality(DOMAIN hist.sessions) = 2
    /\ call[1].src = call[2].src
    /\ call[1].session # call[2].session
    /\ \A p \in DOMAIN call :
          /\ call[p].pc = "extract" /\ call[p].pageCount = 2
          /\ hist.sessions[call[p].session] = [opener |-> p, user |-> p]

\* C15: when two requests with the same cache key both miss and scrape at once,
\* each writes its own whole result when its scrape completes; the entry for the
\* key is at every moment the data and expiry of the last write, never a mix; and
\* a request answered from the cache gets the whole value of the last write before
\* it.
C15_LastWriterWins ==
    /\ [](/\ \A k \in DOMAIN cache :
                /\ k \in DOMAIN hist.lastPut
                /\ cache[k] = [data |-> hist.lastPut[k].data,
                               expiry |-> hist.lastPut[k].at + hist.lastPut[k].ttl]
          /\ \A j \in 1..Len(hist.log) :
                hist.log[j].cached
                    => \E i \in 1..(j - 1) :
                          /\ hist.log[i].wrote /\ hist.log[i].key = hist.log[j].key
                          /\ hist.log[i].data = hist.log[j].data
                          /\ \A m \in (i + 1)..(j - 1) :
                                ~(hist.log[m].wrote /\ hist.log[m].key = hist.log[j].key))
    /\ [][\A p \in DOMAIN call :
              ResumesReturned(p)
                  => /\ req[p].key \in DOMAIN cache'
                     /\ cache'[req[p].key] =
                            [data |-> call[p].result,
                             expiry |-> now + HandlerTtl(req[p].src)]]_vars

\* Two requests missed together; the first to finish wrote, a third request was
\* answered from the cache with that value, then the second wrote other data at a
\* later time, and the entry is now the second's data and expiry.
C15_Witness ==
    \E i, j, k \in 1..Len(hist.log) :
        LET a == hist.log[i]
            b == hist.log[j]
            c == hist.log[k]
        IN  /\ i < j /\ j < k
            /\ a.key = b.key /\ b.key = c.key
            /\ a.wrote /\ c.wrote /\ c.recvAt <= a.at /\ c.at > a.at
            /\ b.cached /\ b.data = a.data /\ b.at < c.at
            /\ c.data # a.data /\ a.data # <<>> /\ c.data # <<>>
            /\ cache[c.key] = [data |-> c.data, expiry |-> c.at + CACHE_TTL]

----------------------------------------------------------------------------
(* Properties of a failed request *)

\* The handler of process p resumes after its scrape has thrown.
ResumesFailed(p) ==
    /\ req[p].pc = "awaitScrape" /\ req'[p].pc = "idle"
    /\ call[p].pc = "done" /\ call[p].outcome = "error"

\* The last request received has been answered with the error envelope.
LastRequestFailed ==
    /\ \A p \in DOMAIN req : req[p].pc = "idle"
    /\ LastGet /\ hist.log # <<>>
    /\ LET a == hist.log[Len(hist.log)] IN
       ~a.success /\ a.key = hist.last.key /\ a.recvAt = hist.last.at

\* C16 as stated: when a scrape call fails the cache is left exactly as it was
\* before the request, no entry being written or removed for the request's key.
C16_FailureLeavesCacheAsBefore ==
    LastRequestFailed
        => LET g == hist.last IN
           IF g.had
           THEN g.key \in DOMAIN cache
                /\ cache[g.key] = [data |-> g.stored, expiry |-> g.expiry]
           ELSE g.key \notin DOMAIN cache

\* C16 amended: when a scrape call fails the handler answers with the error
\* envelope and writes nothing; the only change a failed request makes to the
\* cache is that of its own lookup, which removes the entry of its key when that
\* entry has expired; every response served from the cache carries the data of a
\* successful scrape's write.
C16_FailureWritesNothing ==
    /\ [][\A p \in DOMAIN call :
              ResumesFailed(p)
                  => /\ cache' = cache
                     /\ Len(hist'.log) = Len(hist.log) + 1
                     /\ LET a == hist'.log[Len(hist'.log)] IN
                        ~a.success /\ ~a.wrote /\ ~a.cached /\ a.key = req[p].key]_vars
    /\ [][hist'.reqs = hist.reqs + 1
              => LET g == hist'.last IN
                 cache' = IF g.had /\ g.at > g.expiry
                          THEN [x \in DOMAIN cache \ {g.key} |-> cache[x]]
                          ELSE cache]_vars
    /\ [](\A j \in 1..Len(hist.log) :
              hist.log[j].cached
                  => \E i \in 1..(j - 1) :
                        /\ hist.log[i].success /\ hist.log[i].wrote
                        /\ hist.log[i].key = hist.log[j].key
                        /\ hist.log[i].data = hist.log[j].data)

\* A request found the entry of its key expired, its scrape failed, and the key
\* has no entry any more.
C16_Witness ==
    /\ LastRequestFailed
    /\ hist.last.had /\ hist.last.at > hist.last.expiry
    /\ hist.last.key \notin DOMAIN cache

----------------------------------------------------------------------------
(* Properties of the record normalizer *)

\* The text of cell i of a row of the given style with the white space at its
\* ends removed.
TrimmedText(style, i) ==
    IF style \in {"plain", "padded"} THEN IntStr(i)
    ELSE IF style = "inner" THEN IntStr(i) \o <<" ">> \o IntStr(i)
    ELSE IF style = "mixed" /\ i % 2 = 1 THEN IntStr(i)
    ELSE <<>>

\* C17: for a row of any number of cells, from none to more than the schema has
\* columns, the extraction does not fail and the record has exactly the schema's
\* fields and a timestamp; a field whose cell lies past the end of the row is the
\* empty text, every other field the trimmed text of the cell at its position.
C17_NormalizerTotal ==
    \A p \in Procs :
        LET c == call[p] IN
        (hist.last.op = "extract" /\ c.ver = "opt")
            => LET schema == Schema(c.src)
                   rec == c.result[1]
               IN  /\ c.pending = "ok" /\ Len(c.result) = 1
                   /\ DOMAIN rec = {schema[i] : i \in 1..Len(schema)} \cup {"timestamp"}
                   /\ \A i \in 1..Len(schema) :
                         rec[schema[i]] = IF i > hist.last.cells THEN <<>>
                                          ELSE TrimmedText(hist.last.style, i)

\* A todays-price row of three padded cells: three fields hold the bare texts,
\* the other seven are empty.
C17_Witness ==
    \E p \in Procs :
        LET c == call[p] IN
        /\ hist.last.op = "extract" /\ hist.last.style = "padded" /\ hist.last.cells = 3
        /\ Returned(c) /\ c.src = "todays-price"
        /\ c.result[1]["ltp"] = <<"3">>
        /\ c.result[1]["change"] = <<>> /\ c.result[1]["previousClose"] = <<>>

\* C30: every record a scrape returns, of every source and in every version of
\* the scrapers, has a timestamp field.
C30_EveryRecordStamped ==
    \A p \in Procs :
        LET c == call[p] IN
        (hist.last.op = "extract" /\ c.pending = "ok")
            => \A j \in 1..Len(c.result) : "timestamp" \in DOMAIN c.result[j]

----------------------------------------------------------------------------
(* Properties of the request parameters *)

\* C18: for every integer value of the limit and pages query parameters the
\* scraper is called with 1 <= limit <= 200 and 1 <= maxPages <= 5 (live-trading:
\* 100 and 3), and an absent parameter resolves to its default (50/3, 30/2).
C18_ParamsClamped ==
    \A p \in Procs :
        LET c == call[p]
            r == req[p]
            live == r.src = "live-trading"
        IN  (r.pc = "awaitScrape" /\ r.src \in Paginated)
                => /\ 1 <= c.limit /\ c.limit <= (IF live THEN 100 ELSE 200)
                   /\ 1 <= c.maxPages /\ c.maxPages <= (IF live THEN 3 ELSE 5)
                   /\ (~r.limitQ.present => c.limit = (IF live THEN 30 ELSE 50))
                   /\ (~r.pagesQ.present => c.maxPages = (IF live THEN 2 ELSE 3))

\* The arguments a request of source s with the queries l and m is scraped with.
Resolved(s, l, m) ==
    IF s = "top-gainers" THEN <<s, 0, 0>> ELSE <<s, ResolveLimit(s, l), ResolvePages(s, m)>>

\* C19: the cache key is a function of (source, resolved limit, resolved
\* maxPages) that maps no two different requests to the same key: whatever
\* request shares the key of the request received has the same source, the same
\* resolved limit and the same resolved maxPages, and whatever request resolves
\* to the same three has the same key.
C19_KeyInjective ==
    \A p \in Procs :
        LET r == req[p] IN
        r.pc = "awaitScrape"
            => \A q \in ParamRequests :
                  LET a == Resolved(q[1], q[2], q[3]) IN
                  CacheKey(a[1], a[2], a[3]) = r.key
                      <=> a = <<r.src, r.limit, r.maxPages>>

\* /api/floor-sheet?limit=201&pages=6 is the request /api/floor-sheet?limit=200&pages=5
\* and has its key, which is not the key of todays-price with these arguments
\* nor of floor-sheet with 20 and 5, or 200 and 3.
C19_Witness ==
    \E p \in Procs :
        LET r == req[p] IN
        /\ r.pc = "awaitScrape" /\ r.src = "floor-sheet"
        /\ r.limitQ = Given(201) /\ r.pagesQ = Given(6)
        /\ r.key = CacheKey("floor-sheet", 200, 5)
        /\ r.key # CacheKey("todays-price", 200, 5)
        /\ r.key # CacheKey("floor-sheet", 20, 5)
        /\ r.key # CacheKey("floor-sheet", 200, 3)

----------------------------------------------------------------------------
(* Properties of the stop checks *)

\* The awaits from the lookup of the next control to the arrival of the next page.
NavigationPcs ==
    {"findNext", "isDisabled", "click", "sleep", "waitRows", "hasNext", "clickEval",
     "sleepF", "rowCount"}

\* The batch of the current page has been appended and the limit or the page cap
\* is reached.
StopDue(c) ==
    /\ OptPaginated(c) /\ c.nExtract = c.pageCount
    /\ (Len(Flatten(c.batches)) >= c.limit \/ c.pageCount >= c.maxPages)

\* C20: once a page's batch is appended and the accumulated length is >= limit
\* or the page count is >= maxPages, the call is on its way out: it is at none of
\* the awaits that look for or invoke the next control, and from then on it
\* neither looks for nor invokes the next control nor extracts another page.
C20_NoNavigationAfterStop ==
    /\ [](\A p \in Procs :
              StopDue(call[p])
                  => /\ call[p].pc \in {"close", "done"}
                     /\ call[p].pending = "ok")
    /\ [][\A p \in Procs :
              StopDue(call[p])
                  => /\ call'[p].nLookup = call[p].nLookup
                     /\ call'[p].nClick = call[p].nClick
                     /\ call'[p].nExtract = call[p].nExtract]_vars

\* A run that reached its limit on the second of three allowed pages: the next
\* control was looked for once, after the first page, and not again.
C20_Witness ==
    \E p \in Procs :
        LET c == call[p] IN
        /\ Returned(c) /\ OptPaginated(c) /\ c.stop = "limit-reached"
        /\ c.maxPages = 3 /\ c.nExtract = 2 /\ c.nLookup = 1 /\ c.nClick = 1
        /\ Len(Flatten(c.batches)) > c.limit

----------------------------------------------------------------------------
(* Properties of the pagination loop *)

\* The extraction the call of process p awaits returns no rows.
ExtractsNothing(p) ==
    /\ OptPaginated(call[p]) /\ call[p].pc = "extract"
    /\ call'[p].nExtract = call[p].nExtract + 1
    /\ call'[p].batches = Append(call[p].batches, <<>>)

\* C21: when an extraction yields zero rows the loop is left at once: nothing is
\* appended, the next control is neither looked for nor invoked, no error is
\* raised, and the call returns exactly the records of the earlier pages (cut to
\* limit), the empty sequence as a success when the first page is empty.
C21_EmptyPageStops ==
    /\ [][\A p \in Procs :
              ExtractsNothing(p)
                  => /\ call'[p].pc = "close" /\ call'[p].pending = "ok"
                     /\ call'[p].stop = "no-data" /\ call'[p].failedAt = "none"
                     /\ call'[p].allData = call[p].allData
                     /\ call'[p].nLookup = call[p].nLookup
                     /\ call'[p].nClick = call[p].nClick
                     /\ call'[p].result = Flatten(call[p].batches)
                     /\ (call[p].limit >= 1 =>
                           call'[p].result = Truncated(Flatten(call[p].batches), call[p].limit))
                     /\ (call[p].nExtract = 0 => call'[p].result = <<>>)]_vars
    /\ [][\A p \in Procs :
              call[p].stop = "no-data"
                  => /\ call'[p].pc = "done" /\ call'[p].outcome = "ok"
                     /\ call'[p].result = call[p].result
                     /\ call'[p].nExtract = call[p].nExtract
                     /\ call'[p].nLookup = call[p].nLookup
                     /\ call'[p].nClick = call[p].nClick]_vars

\* A call that found its second page empty and returned the rows of the first.
C21_Witness ==
    \E p \in Procs :
        LET c == call[p] IN
        /\ Returned(c) /\ OptPaginated(c) /\ c.stop = "no-data"
        /\ c.nExtract = 2 /\ c.nLookup = 1 /\ c.nClick = 1
        /\ c.batches[2] = <<>> /\ c.result = c.batches[1] /\ Len(c.result) = MaxRows

\* The lookup the call awaits on a page of behaviour b reports no usable next
\* control: none found, or the one found disabled.
ReportsNoNext(c, b) ==
    \/ c.pc = "findNext" /\ ~FindsNext(b.ctl)
    \/ c.pc = "isDisabled" /\ ReportsDisabled(c.src, b.ctl)
    \/ c.pc = "hasNext" /\ ~ReportsNext(b.ctl)

\* The lookups of the call on a page of behaviour b found a next control and
\* reported it not disabled.
ReportedUsable(c, b) ==
    IF c.src = "floor-sheet" THEN ReportsNext(b.ctl)
    ELSE FindsNext(b.ctl) /\ ~ReportsDisabled(c.src, b.ctl)

\* C22: when the lookup reports the next control absent or disabled, the call
\* leaves the loop and returns the rows gathered so far, without invoking the
\* control and without error; the control is invoked only after it was found and
\* reported not disabled on the page the call is on.
C22_NoUsableNextStops ==
    [][\A i \in DOMAIN call :
          LET c == call[i]
              d == call'[i]
              b == hist.last
          IN  /\ ReportsNoNext(c, b)
                  => /\ d.pc = "close" /\ d.pending = "ok" /\ d.failedAt = "none"
                     /\ d.stop = "end-of-data"
                     /\ d.nClick = c.nClick /\ d.nExtract = c.nExtract
                     /\ d.result = Flatten(c.batches)
              /\ d.nClick > c.nClick
                  => /\ c.pc \in {"click", "clickEval"}
                     /\ b.page = c.pageCount
                     /\ ReportedUsable(c, b)
              /\ d.pc \in {"click", "clickEval"} => ReportedUsable(d, b)]_vars

\* scrapeTodaysPrice found the next control of its first page and was told it is
\* disabled: it returned the rows of that page without a click.
C22_Witness ==
    /\ hist.last.page = 1 /\ hist.last.ctl = "ariaDisabled"
    /\ Returned(call[1]) /\ call[1].src = "todays-price"
    /\ call[1].stop = "end-of-data" /\ call[1].nLookup = 1 /\ call[1].nClick = 0
    /\ call[1].result = call[1].batches[1] /\ Len(call[1].result) >= 1

\* C23: the accumulator is at every moment the concatenation of the extracted
\* batches in the order of extraction, and the result returned (limit >= 0) is
\* its first min(limit, total) elements: element j of the result is element j of
\* the concatenation, so nothing is reordered, duplicated or skipped before the
\* cut and only a suffix is removed.
C23_ResultIsPrefixOfBatches ==
    \A p \in Procs :
        LET c == call[p]
            all == Flatten(c.batches)
        IN  OptPaginated(c)
                => /\ c.allData = all
                   /\ (c.pending = "ok" /\ c.limit >= 0)
                        => /\ Len(c.result) = Min(c.limit, Len(all))
                           /\ \A j \in 1..Len(c.result) : c.result[j] = all[j]

\* Two pages of two rows and a limit of three: both rows of the first page and
\* the first row of the second, in this order.
C23_Witness ==
    \E p \in Procs :
        LET c == call[p] IN
        /\ Returned(c) /\ OptPaginated(c) /\ c.limit = 3
        /\ c.batches = <<Rows(1, 2), Rows(2, 2)>>
        /\ c.result = <<<<1, 1>>, <<1, 2>>, <<2, 1>>>>

\* The calls i and j performed the same number of extractions, lookups and
\* clicks, stopped for the same reason with the same outcome and returned the
\* same number of records.
SameRun(i, j) ==
    LET c == call[i]
        d == call[j]
    IN  /\ c.nExtract = d.nExtract /\ c.nLookup = d.nLookup /\ c.nClick = d.nClick
        /\ c.stop = d.stop /\ c.outcome = d.outcome
        /\ Len(c.result) = Len(d.result)

\* C24: called with the same limit and maxPages against the same page driver
\* behaviour, scrapeTodaysPrice, scrapeLiveTrading and scrapeFloorSheet perform
\* the same steps, stop for the same reason with the same outcome and return the
\* same number of records.
C24_SameControlFlow ==
    (\A i \in DOMAIN call : call[i].pc = "done")
        => \A i, j \in DOMAIN call : SameRun(i, j)

\* C25: the k-th extraction of a call reads the rows of page k, never those of
\* a page already extracted, so that no page's batch appears twice in the result.
C25_ExtractionReadsItsPage ==
    \A p \in Procs :
        LET c == call[p] IN
        OptPaginated(c)
            => /\ \A k \in 1..Len(c.batches) : c.batches[k] = Rows(k, Len(c.batches[k]))
               /\ \A j, k \in 1..Len(c.result) : c.result[j] = c.result[k] => j = k

\* C26: every scrape call eventually settles, having returned through a stop
\* state or failed at the initial load, with the session it opened closed, and
\* its loop runs at most maxPages times.
C26_EndsInStopOrInitialLoadFailure ==
    /\ <>[](\A p \in Procs :
               LET c == call[p] IN
               /\ c.pc = "done" /\ c.nClose = c.nOpen
               /\ \/ Returned(c) /\ c.stop \in StopReasons
                  \/ Failed(c) /\ c.failedAt \in InitialSteps)
    /\ [](\A p \in Procs :
             OptPaginated(call[p]) => call[p].nExtract <= Max(call[p].maxPages, 0))

\* The rows of the first k batches.
RowsUpTo(c, k) == Len(Flatten(SubSeq(c.batches, 1, k)))

\* C29: with limit >= 1 the accumulator holds fewer than limit records whenever
\* a page is about to be extracted; hence in a returned result every non-empty
\* batch has at least its first row, and the rows cut off are fewer than the rows
\* of the last batch: they all belong to the last page extracted.
C29_OverFetchBelowOnePage ==
    \A p \in Procs :
        LET c == call[p]
            n == Len(c.batches)
        IN  (OptPaginated(c) /\ c.limit >= 1)
                => /\ c.pc = "extract" => Len(c.allData) < c.limit
                   /\ c.pending = "ok"
                        => /\ \A k \in 1..n :
                                 c.batches[k] # <<>> => Len(c.result) > RowsUpTo(c, k - 1)
                           /\ Len(c.result) >= RowsUpTo(c, n - 1)
                           /\ Len(c.result) < RowsUpTo(c, n)
                                 => RowsUpTo(c, n) - Len(c.result) < Len(c.batches[n])

\* Three rows were asked for and two pages of two rows extracted: the second
\* page gave one row and lost one.
C29_Witness ==
    \E p \in Procs :
        LET c == call[p] IN
        /\ Returned(c) /\ OptPaginated(c) /\ c.limit = 3 /\ c.stop = "limit-reached"
        /\ Len(c.batches) = 2 /\ Len(c.batches[1]) = 2 /\ Len(c.batches[2]) = 2
        /\ Len(c.result) = 3 /\ c.result[3] = c.batches[2][1]

----------------------------------------------------------------------------
(* Properties of the request flow *)

\* A request is received in this step.
Received == hist'.reqs = hist.reqs + 1

\* C27: a request whose getCached returns a value is answered at once with that
\* value and cached = true, opens no session, starts no scrape and leaves the
\* cache unchanged; a session is opened only by the call of a request whose
\* lookup returned nothing; and a response without cached = true is sent only
\* when the scrape that request started has settled, a successful one carrying
\* what that scrape returned.
C27_HitServedWithoutScrape ==
    /\ [][(Received /\ ~hist'.last.ret.isNull)
            => /\ cache' = cache /\ call' = call /\ req' = req
               /\ hist'.sessions = hist.sessions
               /\ Len(hist'.log) = Len(hist.log) + 1
               /\ LET a == hist'.log[Len(hist'.log)] IN
                  /\ a.success /\ a.cached /\ ~a.wrote
                  /\ a.key = hist'.last.key
                  /\ a.data = hist'.last.ret.data
                  /\ a.data = hist'.last.stored]_vars
    /\ [][(Received /\ hist'.last.ret.isNull)
            => /\ hist'.log = hist.log
               /\ \E p \in DOMAIN call :
                     /\ req[p].pc = "idle" /\ req'[p].pc = "awaitScrape"
                     /\ req'[p].key = hist'.last.key
                     /\ call'[p].pc = "launch"]_vars
    /\ [](\A p \in DOMAIN call : InFlight(call[p]) => req[p].pc = "awaitScrape")
    /\ [](\A s \in DOMAIN hist.sessions :
             req[hist.sessions[s].opener].pc = "awaitScrape")
    /\ [][Len(hist'.log) > Len(hist.log)
            => LET a == hist'.log[Len(hist'.log)] IN
               \/ a.cached /\ Received
               \/ /\ ~a.cached
                  /\ \E p \in DOMAIN call :
                        /\ req[p].pc = "awaitScrape" /\ req'[p].pc = "idle"
                        /\ call[p].pc = "done"
                        /\ a.key = req[p].key /\ a.recvAt = req[p].recvAt
                        /\ a.success <=> call[p].outcome = "ok"
                        /\ a.success => a.data = call[p].result]_vars

\* A request was answered by its own scrape with two rows; a later request for
\* the same key is answered from the cache with these rows, and no session was
\* opened for it.
C27_Witness ==
    /\ Len(hist.log) = 2
    /\ hist.log[1].success /\ ~hist.log[1].cached /\ Len(hist.log[1].data) = 2
    /\ hist.log[2].cached /\ hist.log[2].key = hist.log[1].key
    /\ hist.log[2].data = hist.log[1].data
    /\ hist.log[2].recvAt > hist.log[1].at
    /\ hist.sessions = <<>>
    /\ \A p \in DOMAIN call : call[p].pc = "idle"

----------------------------------------------------------------------------
(* Properties of the page counter *)

\* C31: whenever a page is about to be extracted, 1 <= pageCount <= maxPages,
\* pageCount is the number of extractions including this one and is 1 plus the
\* number of invocations of the next control, each of which succeeded; the
\* counter changes only by one, when the wait after an invocation has succeeded,
\* and a failed navigation or a stop leaves it as it is.
C31_PageCountCountsNavigations ==
    /\ [](\A p \in Procs :
             LET c == call[p] IN
             (OptPaginated(c) /\ c.pc = "extract")
                 => /\ 1 <= c.pageCount /\ c.pageCount <= c.maxPages
                    /\ c.pageCount = c.nExtract + 1
                    /\ c.pageCount = 1 + c.nClick)
    /\ [][\A p \in Procs :
             LET c == call[p]
                 d == call'[p]
             IN  (OptPaginated(c) /\ c.pc # "waitTable")
                     => /\ d.pageCount # c.pageCount
                            => /\ d.pageCount = c.pageCount + 1
                               /\ c.pc \in {"waitRows", "rowCount"}
                               /\ d.pc = "extract" /\ d.failedAt = "none"
                        /\ d.pc \in {"close", "done"} => d.pageCount = c.pageCount]_vars

====
